---- MODULE Spec2Model ----
(***************************************************************************)
(* Model of diff.py: diff(old_dir, new_dir) computes a Patch between two   *)
(* directory trees and apply_patch(patch, old_dir, new_dir) rebuilds the   *)
(* new tree in a staging directory and swaps it in place of new_dir.       *)
(*                                                                         *)
(* The file system is a map from directory roots to their top-level        *)
(* entries (scan_dir is not recursive).  A file's content is a sequence of *)
(* bytes.  A symbolic link carries its link text; what the text resolves   *)
(* to lies outside the trees and is fixed by LinkKind / LinkData.          *)
(***************************************************************************)
EXTENDS Integers, Sequences, FiniteSets, TLC

\* fs      the directories on disk, by root
\* patch   the Patch diff returned
\* pc      where the program is: start, diffed, tampered, ops, delete_extra,
\*         rmtree, move, done, failed
\* new_dir the new_dir argument of apply_patch
\* i       index of the next operation of apply_patch's loop
\* todo    paths delete_extra_files has not visited yet
\* old0    history: the old tree's entries when diff scanned it
\* fs0     history: the disk when apply_patch was called
\* err     the exception that ended apply_patch, or "none"
VARIABLES fs, patch, pc, new_dir, i, todo, old0, fs0, err

vars == <<fs, patch, pc, new_dir, i, todo, old0, fs0, err>>

----------------------------------------------------------------------------
(* Constants of the program and bounds of the model *)

BLOCK_SIZE == 8

\* longest new file of the file-level inputs, in blocks
MaxBlocks == 4
\* most bytes appended to an old file of whole blocks
MaxAppend == 9
\* longest old file of the file-level inputs, in blocks
MaxOldBlocks == 2
\* number of distinct one-byte files of the tree-level inputs
MaxData == 2

Names == {"foo", "bar"}

OLD == "old"
REF == "ref"
DEST == "dest"
STAGING == "staging"
Roots == {OLD, REF, DEST, STAGING}

Min(a, b) == IF a < b THEN a ELSE b

----------------------------------------------------------------------------
(* Directory entries *)

Absent == [kind |-> "absent", data |-> <<>>, target |-> ""]
Dir == [kind |-> "dir", data |-> <<>>, target |-> ""]
File(d) == [kind |-> "file", data |-> d, target |-> ""]
Link(t) == [kind |-> "link", data |-> <<>>, target |-> t]

\* What a link text resolves to: a regular file, a directory, or nothing.
LinkKind(t) == CASE t = "to_file" -> "file"
                 [] t = "to_dir" -> "dir"
                 [] OTHER -> "none"
LinkData(t) == IF t = "to_file" THEN <<7>> ELSE <<>>

\* os.path.islink / isfile / isdir (the latter two follow links)
islink(e) == e.kind = "link"
isfile(e) == e.kind = "file" \/ (e.kind = "link" /\ LinkKind(e.target) = "file")
isdir(e) == e.kind = "dir" \/ (e.kind = "link" /\ LinkKind(e.target) = "dir")

\* bytes open(path).read() returns for an entry that can be opened (a link is
\* followed; text mode decodes the same bytes, kept here as the byte sequence)
Content(e) == IF e.kind = "link" THEN LinkData(e.target) ELSE e.data

EmptyEnts == [n \in Names |-> Absent]
NoDir == [exists |-> FALSE, ents |-> EmptyEnts]
DirOf(ents) == [exists |-> TRUE, ents |-> ents]

----------------------------------------------------------------------------
(* Operation and Patch *)

Operation(t, bi, bs, d, p) ==
  [op_type |-> t, file_index |-> 0, block_index |-> bi, block_span |-> bs,
   data |-> d, target_path |-> p]

Patch(od, nd, del, ext, ops) ==
  [old_dirs |-> od, new_dirs |-> nd, deleted_files |-> del,
   extra_files |-> ext, operations |-> ops]

NoPatch == Patch({}, {}, {}, {}, <<>>)

----------------------------------------------------------------------------
(* File reads: f.read(BLOCK_SIZE) at position pos, and f.tell() after it *)

Read(f, pos) == SubSeq(f, pos + 1, Min(pos + BLOCK_SIZE, Len(f)))
Tell(f, pos) == Min(pos + BLOCK_SIZE, Len(f))

\* find_next_matching_block: read block after block of the new file from
\* its current position until one equals old_chunk or the file ends.
RECURSIVE find_next_matching_block(_, _, _)
find_next_matching_block(old_chunk, new_file, pos) ==
  LET new_chunk == Read(new_file, pos)
  IN IF new_chunk = <<>>
       THEN [found |-> FALSE, chunk |-> <<>>, pos |-> Tell(new_file, pos)]
       ELSE IF old_chunk = new_chunk
              THEN [found |-> TRUE, chunk |-> new_chunk, pos |-> Tell(new_file, pos)]
              ELSE find_next_matching_block(old_chunk, new_file, Tell(new_file, pos))

\* The while loop of diff over one common regular file.  opos/npos are the
\* positions of the two files after old_chunk/new_chunk were read.
RECURSIVE DiffLoop(_, _, _, _, _, _, _)
DiffLoop(old_file, new_file, opos, npos, old_chunk, new_chunk, file) ==
  IF old_chunk # <<>> /\ new_chunk # <<>>
    THEN IF old_chunk # new_chunk
           THEN LET m == find_next_matching_block(old_chunk, new_file, npos)
                IN IF m.found
                     THEN LET block_index == (m.pos \div BLOCK_SIZE) - 1
                              block_span == Len(m.chunk) \div BLOCK_SIZE
                              npos2 == Tell(new_file, m.pos)
                          IN <<Operation("BLOCK_RANGE", block_index, block_span, <<>>, file)>>
                             \o DiffLoop(old_file, new_file,
                                         Tell(old_file, opos), Tell(new_file, npos2),
                                         Read(old_file, opos), Read(new_file, npos2), file)
                     ELSE <<Operation("DATA", 0, 0, new_chunk, file)>>
           ELSE DiffLoop(old_file, new_file,
                         Tell(old_file, opos), Tell(new_file, npos),
                         Read(old_file, opos), Read(new_file, npos), file)
    ELSE IF old_chunk = <<>> /\ new_chunk # <<>>
           THEN <<Operation("DATA", 0, 0, new_chunk, file)>>
           ELSE <<>>

\* operations diff emits for one common regular file
DiffCommonFile(old_file, new_file, file) ==
  DiffLoop(old_file, new_file, Tell(old_file, 0), Tell(new_file, 0),
           Read(old_file, 0), Read(new_file, 0), file)

----------------------------------------------------------------------------
(* scan_dir and diff *)

scan_dirs(ents) == {n \in Names : isdir(ents[n])}
scan_files(ents) == {n \in Names : ~isdir(ents[n]) /\ isfile(ents[n])}

\* operations for one path of extra_files
ExtraOps(new_ents, file) ==
  LET e == new_ents[file]
  IN IF islink(e) THEN <<Operation("SYMLINK", 0, 0, <<>>, Content(e))>>
     ELSE IF isdir(e) THEN <<Operation("MKDIR", 0, 0, <<>>, file)>>
     ELSE <<Operation("DATA", 0, 0, Content(e), file)>>

\* operations for one path of common_files
CommonOps(old_ents, new_ents, file) ==
  LET o == old_ents[file]
      n == new_ents[file]
  IN IF islink(o) \/ islink(n) THEN <<Operation("SYMLINK", 0, 0, <<>>, Content(n))>>
     ELSE IF isdir(o) \/ isdir(n) THEN <<Operation("MKDIR", 0, 0, <<>>, file)>>
     ELSE DiffCommonFile(Content(o), Content(n), file)

\* all orders in which a for loop can iterate over a set
Orders(S) == {s \in [1..Cardinality(S) -> S] : \A a, b \in DOMAIN s : a # b => s[a] # s[b]}

RECURSIVE Concat(_)
Concat(ss) == IF ss = <<>> THEN <<>> ELSE Head(ss) \o Concat(Tail(ss))

DeleteOps(dorder) == [k \in DOMAIN dorder |-> Operation("DELETE", 0, 0, <<>>, dorder[k])]

\* diff with the deleted files processed after the extra and common files
diffDeletesLast(old_ents, new_ents, dorder, eorder, corder) ==
  LET old_files == scan_files(old_ents)
      new_files == scan_files(new_ents)
  IN Patch(scan_dirs(old_ents), scan_dirs(new_ents),
           old_files \ new_files, new_files \ old_files,
           Concat([k \in DOMAIN eorder |-> ExtraOps(new_ents, eorder[k])])
             \o Concat([k \in DOMAIN corder |-> CommonOps(old_ents, new_ents, corder[k])])
             \o DeleteOps(dorder))

\* diff, for given iteration orders of the three sets
diff(old_ents, new_ents, dorder, eorder, corder) ==
  LET old_files == scan_files(old_ents)
      new_files == scan_files(new_ents)
  IN Patch(scan_dirs(old_ents), scan_dirs(new_ents),
           old_files \ new_files, new_files \ old_files,
           DeleteOps(dorder)
             \o Concat([k \in DOMAIN eorder |-> ExtraOps(new_ents, eorder[k])])
             \o Concat([k \in DOMAIN corder |-> CommonOps(old_ents, new_ents, corder[k])]))

----------------------------------------------------------------------------
(* Inputs *)

\* a block whose first byte is b
Block(b) == [k \in 1..BLOCK_SIZE |-> IF k = 1 THEN b ELSE 0]

RECURSIVE BlocksOf(_)
BlocksOf(bs) == IF bs = <<>> THEN <<>> ELSE Block(Head(bs)) \o BlocksOf(Tail(bs))

SeqsUpTo(S, n) == UNION {[1..k -> S] : k \in 0..n}

\* old files: up to MaxOldBlocks whole blocks
OldFiles == {BlocksOf(s) : s \in SeqsUpTo({1, 2}, MaxOldBlocks)}

\* new files: whole blocks, or the old file with bytes appended, or the old
\* file with one byte prepended
NewFiles(old) ==
  {BlocksOf(s) : s \in SeqsUpTo({1, 2, 3}, MaxBlocks)}
    \cup {old \o [k \in 1..n |-> 5] : n \in 1..MaxAppend}
    \cup {<<9>> \o old}

\* entries of the tree-level inputs
SmallEntries ==
  {Absent, Dir, Link("to_file"), Link("to_dir")} \cup {File(<<d>>) : d \in 1..MaxData}

InitDisk(o, n) ==
  [r \in Roots |-> CASE r = OLD -> DirOf(o)
                     [] r = REF -> DirOf(n)
                     [] r = DEST -> DirOf(n)
                     [] OTHER -> NoDir]

InitRest ==
  /\ patch = NoPatch
  /\ pc = "start"
  /\ new_dir = DEST
  /\ i = 1
  /\ todo = {}
  /\ old0 = fs[OLD].ents
  /\ fs0 = fs
  /\ err = "none"

\* two trees of small entries
InitTree ==
  /\ \E o, n \in [Names -> SmallEntries] : fs = InitDisk(o, n)
  /\ InitRest

\* one path, a regular file on both sides
InitFile ==
  /\ \E o \in OldFiles : \E n \in NewFiles(o) :
        fs = InitDisk([EmptyEnts EXCEPT !["foo"] = File(o)],
                      [EmptyEnts EXCEPT !["foo"] = File(n)])
  /\ InitRest

Init == InitTree \/ InitFile

----------------------------------------------------------------------------
(* diff(old_dir, new_dir) *)

Diff ==
  /\ pc = "start"
  /\ LET o == fs[OLD].ents
         n == fs[REF].ents
     IN \E dorder \in Orders(scan_files(o) \ scan_files(n)),
           eorder \in Orders(scan_files(n) \ scan_files(o)),
           corder \in Orders(scan_files(o) \cap scan_files(n)) :
          patch' = diff(o, n, dorder, eorder, corder)
  /\ old0' = fs[OLD].ents
  /\ pc' = "diffed"
  /\ UNCHANGED <<fs, new_dir, i, todo, fs0, err>>

----------------------------------------------------------------------------
(* The old tree changes between diff and apply_patch *)

Truncate ==
  /\ pc = "diffed"
  /\ \E n \in Names : \E len \in {0, Len(fs[OLD].ents[n].data) \div 2} :
        /\ fs[OLD].ents[n].kind = "file"
        /\ len < Len(fs[OLD].ents[n].data)
        /\ fs' = [fs EXCEPT ![OLD].ents[n].data = SubSeq(@, 1, len)]
  /\ pc' = "tampered"
  /\ UNCHANGED <<patch, new_dir, i, todo, old0, fs0, err>>

Remove ==
  /\ pc = "diffed"
  /\ \E n \in Names :
        /\ fs[OLD].ents[n].kind = "file"
        /\ fs' = [fs EXCEPT ![OLD].ents[n] = Absent]
  /\ pc' = "tampered"
  /\ UNCHANGED <<patch, new_dir, i, todo, old0, fs0, err>>

----------------------------------------------------------------------------
(* apply_patch(patch, old_dir, new_dir) *)

\* create_missing_dirs: the staging directory after mkdtemp and makedirs
create_missing_dirs(p) == DirOf([n \in Names |-> IF n \in p.new_dirs THEN Dir ELSE Absent])

\* where apply_patch is after operation k - 1: the loop, or delete_extra_files
AfterOps(p, k) == IF k <= Len(p.operations) THEN "ops" ELSE "delete_extra"

ApplyStart ==
  /\ pc \in {"diffed", "tampered"}
  /\ \E nd \in {OLD, DEST} : new_dir' = nd
  /\ fs' = [fs EXCEPT ![STAGING] = create_missing_dirs(patch)]
  /\ fs0' = fs
  /\ i' = 1
  /\ todo' = patch.extra_files
  /\ pc' = AfterOps(patch, 1)
  /\ UNCHANGED <<patch, old0, err>>

\* open(path, 'wb') succeeds unless the path is a directory
CanWrite(f, root, path) == f[root].exists /\ ~isdir(f[root].ents[path])
\* open(path, 'rb') succeeds on a regular file or a link to one
CanRead(f, root, path) == f[root].exists /\ isfile(f[root].ents[path])

\* old_file.seek(block_index * BLOCK_SIZE); old_file.read(block_span * BLOCK_SIZE)
ReadBlocks(data, block_index, block_span) ==
  SubSeq(data, block_index * BLOCK_SIZE + 1,
         Min((block_index + block_span) * BLOCK_SIZE, Len(data)))

\* with open(new_file_path, 'wb') as f: f.write(data)
WriteFile(f, root, path, data) == [f EXCEPT ![root].ents[path] = File(data)]

\* the DATA branch, writing under new_dir instead of the staging directory
ApplyDataLive(f, op) == WriteFile(f, new_dir, op.target_path, op.data)

\* the DATA branch
ApplyData(f, op) == WriteFile(f, STAGING, op.target_path, op.data)

\* the BLOCK_RANGE branch
ApplyBlockRange(f, op) ==
  WriteFile(f, STAGING, op.target_path,
            ReadBlocks(Content(f[OLD].ents[op.target_path]), op.block_index, op.block_span))

\* does the body of the loop raise for this operation?
OpRaises(f, op) ==
  CASE op.op_type = "DATA" -> ~CanWrite(f, STAGING, op.target_path)
    [] op.op_type = "BLOCK_RANGE" ->
         ~CanRead(f, OLD, op.target_path) \/ ~CanWrite(f, STAGING, op.target_path)
    [] OTHER -> FALSE

\* one iteration of the loop over patch.operations
ApplyOp ==
  /\ pc = "ops"
  /\ LET op == patch.operations[i]
     IN IF OpRaises(fs, op)
          THEN /\ pc' = "failed"
               /\ err' = "OSError"
               /\ UNCHANGED <<fs, i>>
          ELSE /\ fs' = CASE op.op_type = "DATA" -> ApplyData(fs, op)
                          [] op.op_type = "BLOCK_RANGE" -> ApplyBlockRange(fs, op)
                          [] OTHER -> fs
               /\ i' = i + 1
               /\ pc' = AfterOps(patch, i + 1)
               /\ err' = err
  /\ UNCHANGED <<patch, new_dir, todo, old0, fs0>>

\* open() or write() of a DATA or BLOCK_RANGE operation fails in the system
ApplyOpIOError ==
  /\ pc = "ops"
  /\ patch.operations[i].op_type \in {"DATA", "BLOCK_RANGE"}
  /\ pc' = "failed"
  /\ err' = "OSError"
  /\ UNCHANGED <<fs, patch, new_dir, i, todo, old0, fs0>>

\* delete_extra_files: one iteration of its loop
DeleteExtraFile(f, root, file) ==
  IF f[root].exists /\ (isfile(f[root].ents[file]) \/ islink(f[root].ents[file]))
    THEN [f EXCEPT ![root].ents[file] = Absent]
    ELSE IF f[root].exists /\ isdir(f[root].ents[file])
           THEN [f EXCEPT ![root].ents[file] = Absent]
           ELSE f

DeleteExtra ==
  /\ pc = "delete_extra"
  /\ IF todo = {}
       THEN /\ pc' = "rmtree"
            /\ UNCHANGED <<fs, todo>>
       ELSE /\ \E file \in todo :
                 /\ fs' = DeleteExtraFile(fs, new_dir, file)
                 /\ todo' = todo \ {file}
            /\ pc' = pc
  /\ UNCHANGED <<patch, new_dir, i, old0, fs0, err>>

\* os.remove or os.rmdir fails in the system
DeleteExtraIOError ==
  /\ pc = "delete_extra"
  /\ \E file \in todo : DeleteExtraFile(fs, new_dir, file) # fs
  /\ pc' = "failed"
  /\ err' = "OSError"
  /\ UNCHANGED <<fs, patch, new_dir, i, todo, old0, fs0>>

\* shutil.rmtree(new_dir): remove one entry, or the emptied directory itself
Rmtree ==
  /\ pc = "rmtree"
  /\ IF ~fs[new_dir].exists
       THEN /\ pc' = "failed"
            /\ err' = "FileNotFoundError"
            /\ fs' = fs
       ELSE IF \E n \in Names : fs[new_dir].ents[n] # Absent
              THEN /\ \E n \in Names :
                        /\ fs[new_dir].ents[n] # Absent
                        /\ fs' = [fs EXCEPT ![new_dir].ents[n] = Absent]
                   /\ UNCHANGED <<pc, err>>
              ELSE /\ fs' = [fs EXCEPT ![new_dir] = NoDir]
                   /\ pc' = "move"
                   /\ err' = err
  /\ UNCHANGED <<patch, new_dir, i, todo, old0, fs0>>

\* an unlink or rmdir of rmtree fails in the system
RmtreeIOError ==
  /\ pc = "rmtree"
  /\ fs[new_dir].exists
  /\ pc' = "failed"
  /\ err' = "OSError"
  /\ UNCHANGED <<fs, patch, new_dir, i, todo, old0, fs0>>

\* shutil.move(staging_dir, new_dir)
Move ==
  /\ pc = "move"
  /\ fs' = [fs EXCEPT ![new_dir] = fs[STAGING], ![STAGING] = NoDir]
  /\ pc' = "done"
  /\ UNCHANGED <<patch, new_dir, i, todo, old0, fs0, err>>

\* the rename of shutil.move fails in the system
MoveIOError ==
  /\ pc = "move"
  /\ pc' = "failed"
  /\ err' = "OSError"
  /\ UNCHANGED <<fs, patch, new_dir, i, todo, old0, fs0>>

----------------------------------------------------------------------------

Next ==
  \/ Diff
  \/ Truncate
  \/ Remove
  \/ ApplyStart
  \/ ApplyOp
  \/ ApplyOpIOError
  \/ DeleteExtra
  \/ DeleteExtraIOError
  \/ Rmtree
  \/ RmtreeIOError
  \/ Move
  \/ MoveIOError

Spec == Init /\ [][Next]_vars

----------------------------------------------------------------------------
(* Properties *)

ops == patch.operations

Diffed == pc # "start"

\* apply_patch raised inside the loop over the operations
FailedInOps == pc = "failed" /\ i <= Len(ops)

\* the DATA and BLOCK_RANGE operations of one path, in patch order
IsContentOp(op, path) ==
  op.op_type \in {"DATA", "BLOCK_RANGE"} /\ op.target_path = path
ContentOps(path) == SelectSeq(ops, LAMBDA op : IsContentOp(op, path))

\* the bytes one operation stands for, read from the old tree apply_patch saw
OpBytes(op) ==
  IF op.op_type = "DATA"
    THEN op.data
    ELSE ReadBlocks(Content(fs0[OLD].ents[op.target_path]), op.block_index, op.block_span)

RECURSIVE ConcatBytes(_)
ConcatBytes(os) == IF os = <<>> THEN <<>> ELSE OpBytes(Head(os)) \o ConcatBytes(Tail(os))

RECURSIVE DataLen(_)
DataLen(os) ==
  IF os = <<>> THEN 0
  ELSE (IF Head(os).op_type = "DATA" THEN Len(Head(os).data) ELSE 0) + DataLen(Tail(os))

OldFoo == old0["foo"]
NewFoo == fs[REF].ents["foo"]

\* C1: after diff(T_old, T_new) and apply_patch(patch, T_old, T_old) on the
\* untouched old tree, the target tree equals T_new: same paths, same bytes,
\* same symlink targets, same directories.
C1_RoundTrip ==
  (pc = "done" /\ new_dir = OLD /\ fs0[OLD].ents = old0)
    => (fs[OLD].exists /\ fs[OLD].ents = fs[REF].ents)

\* C2: from the moment apply_patch starts to replace the target until the
\* staging directory is in place, and when that step fails, the old target
\* directory exists with all of its original content.
C2_OldTargetIntact ==
  (pc \in {"delete_extra", "rmtree", "move"} \/ (pc = "failed" /\ ~FailedInOps))
    => fs[new_dir] = fs0[new_dir]

\* the old file of operation k is shorter than the one diffed and yields fewer
\* than block_span * BLOCK_SIZE bytes
ShortRead(k) ==
  /\ ops[k].op_type = "BLOCK_RANGE"
  /\ CanRead(fs0, OLD, ops[k].target_path)
  /\ Len(Content(fs0[OLD].ents[ops[k].target_path])) < Len(Content(old0[ops[k].target_path]))
  /\ Len(OpBytes(ops[k])) < ops[k].block_span * BLOCK_SIZE

\* C3: apply_patch never gets past a BLOCK_RANGE operation whose old file is
\* shorter than the one diffed and yields too few bytes: it fails there with
\* SourceMismatch and the target tree is unchanged.
C3_SourceMismatch ==
  \A k \in DOMAIN ops :
    (pc \in {"ops", "delete_extra", "rmtree", "move", "done", "failed"} /\ ShortRead(k))
      => /\ k >= i
         /\ (k = i /\ pc = "failed" => err = "SourceMismatch" /\ fs[new_dir] = fs0[new_dir])

\* C4: when an operation of the patch raises, apply_patch stops with nothing
\* published: the target and every other directory but the staging
\* directory are as they were when apply_patch was called.
C4_AbortLeavesTarget ==
  FailedInOps => \A r \in Roots \ {STAGING} : fs[r] = fs0[r]

\* C4 witness: an operation raised after an earlier one had written a file
C4_Witness ==
  /\ FailedInOps
  /\ i > 1
  /\ \E n \in Names : fs[STAGING].ents[n].kind = "file"

\* C5: diff(T, T) has no operations, no deleted files and no extra files.
C5_NoOpDiff ==
  (pc = "diffed" /\ fs[OLD].ents = fs[REF].ents)
    => (ops = <<>> /\ patch.deleted_files = {} /\ patch.extra_files = {})

\* C6: when the new file is an old file of K whole blocks followed by N
\* appended bytes, the operations for the path are BLOCK_RANGE(0, K) and then
\* DATA with the N appended bytes.
C6_BlockReuse ==
  \A K \in 1..MaxOldBlocks : \A N \in 1..MaxAppend :
    (/\ pc = "diffed"
     /\ OldFoo.kind = "file" /\ NewFoo.kind = "file"
     /\ Len(OldFoo.data) = K * BLOCK_SIZE
     /\ Len(NewFoo.data) = K * BLOCK_SIZE + N
     /\ SubSeq(NewFoo.data, 1, K * BLOCK_SIZE) = OldFoo.data)
      => ContentOps("foo") =
           << Operation("BLOCK_RANGE", 0, K, <<>>, "foo"),
              Operation("DATA", 0, 0,
                        SubSeq(NewFoo.data, K * BLOCK_SIZE + 1, K * BLOCK_SIZE + N), "foo") >>

\* C7: when foo is a regular file in the old tree and a directory in the new
\* tree, the operations contain DELETE foo and, later, MKDIR foo.
C7_MismatchedKind ==
  (pc = "diffed" /\ OldFoo.kind = "file" /\ NewFoo.kind = "dir")
    => \E a, b \in DOMAIN ops :
         /\ a < b
         /\ ops[a].op_type = "DELETE" /\ ops[a].target_path = "foo"
         /\ ops[b].op_type = "MKDIR" /\ ops[b].target_path = "foo"

\* C8: when the new file is the old file (two blocks or more) with one byte
\* prepended, the operations for the path include a BLOCK_RANGE that reuses
\* old blocks and carry less DATA than the whole new file.
C8_ShiftDetection ==
  (/\ pc = "diffed"
   /\ OldFoo.kind = "file" /\ NewFoo.kind = "file"
   /\ Len(OldFoo.data) >= 2 * BLOCK_SIZE
   /\ Len(NewFoo.data) = Len(OldFoo.data) + 1
   /\ Tail(NewFoo.data) = OldFoo.data)
    => /\ \E k \in DOMAIN ContentOps("foo") :
            /\ ContentOps("foo")[k].op_type = "BLOCK_RANGE"
            /\ ContentOps("foo")[k].block_span >= 1
       /\ DataLen(ContentOps("foo")) < Len(NewFoo.data)

\* C9: in the operations of every Patch diff returns, every DELETE comes
\* before every operation of another type.
C9_DeletionsFirst ==
  Diffed => \A a, b \in DOMAIN ops :
              (a < b /\ ops[b].op_type = "DELETE") => ops[a].op_type = "DELETE"

\* C9 witness: a Patch with a DELETE and a later operation of another type
C9_Witness ==
  /\ pc = "diffed"
  /\ \E a, b \in DOMAIN ops :
       a < b /\ ops[a].op_type = "DELETE" /\ ops[b].op_type # "DELETE"

\* C10: once every operation is applied, each path with DATA or BLOCK_RANGE
\* operations holds in the staging directory the concatenation of their
\* bytes in patch order.
C10_InOrderReconstruction ==
  pc \in {"delete_extra", "rmtree", "move"}
    => \A path \in Names :
         ContentOps(path) # <<>>
           => fs[STAGING].ents[path] = File(ConcatBytes(ContentOps(path)))

====
